---- MODULE Spec2Model ----
(***************************************************************************)
(* A model of the BizHawk embedding bridge of mGBA                         *)
(* (src/platform/bizhawk/bizinterface.c): the context lifecycle            *)
(* (BizCreate, BizLoad, BizReset, BizDestroy), the frame stepper           *)
(* (BizAdvance), the peripheral accessors, the pixel blit, the save-RAM    *)
(* calls and the snapshot calls.                                           *)
(*                                                                         *)
(* The host addresses one context at a time (self, ctx, gba); a second     *)
(* context it may hold is kept in other.  Spec covers the lifecycle and    *)
(* the frame stepper, SpecSaveRam the save-RAM calls, SpecSnapshot the     *)
(* snapshot calls and SpecIsolation two contexts side by side.             *)
(*                                                                         *)
(* The heap is a sequence of objects; a pointer is an index into it and 0  *)
(* is NULL.  relSeq lists the objects in the order they were released      *)
(* (closed, torn down or freed).  The engine (GBA*, ARM*, blip_*, the      *)
(* virtual files) is outside the bridge's source: it is modelled by what   *)
(* the specification says of it.                                           *)
(***************************************************************************)
EXTENDS Integers, Sequences, FiniteSets, TLC

VARIABLES
    pc,          \* where the host is: "none", "idle", "running", "crashed"
    self,        \* the host's context handle (heap index), 0 when it has none
    ctx,         \* the fields of the bizctx the handle refers to
    gba,         \* the engine state the bridge reads and sets (ctx->gba, ctx->cpu)
    heap,        \* every object allocated so far: [kind, over]
    relSeq,      \* the heap indices released so far, in order
    frameCount,  \* BizAdvance's local frameCount
    seen,        \* what the accessors returned at the engine's last sampling
    args,        \* the arguments of the current or last BizAdvance call
    nullWrites,  \* context fields written through a NULL context
    ret,         \* the last finished call and what it returned
    other        \* the host's second context, the one its calls do not address

vars == <<pc, self, ctx, gba, heap, relSeq, frameCount, seen, args, nullWrites, ret,
          other>>

----------------------------------------------------------------------------
(* Bounds of the model. *)

\* Objects the heap may hold before Create and Load stop being called.
MaxObjs == 9
\* Frames a context may step before Advance stops being called.
MaxFrames == 2
\* Sample pairs the resampler holds at most.
MaxAvail == 2048
\* The frame is 4 * FrameQuads pixels (240 * 160 = 4 * 9600 in the source).
FrameQuads == 2

(* Program constants. *)

\* The frame's width and height in pixels.
VIDEO_HORIZONTAL_PIXELS == 240
VIDEO_VERTICAL_PIXELS == 160
\* The capacity of the host's audio buffer, in sample pairs.
AUDIO_CAP == 1024
\* sizeof(ctx->savedata), in units of 8 KiB.
SIZE_CART_FLASH1M == 16
\* The sizes of the other save types, in the same units.
SIZE_CART_FLASH512 == 8
SIZE_CART_SRAM == 4
SIZE_CART_EEPROM == 1
\* sizeof(struct GBASerializedState), in fields of the model's snapshot.
SIZEOF_GBASerializedState == 2

NULL == 0

----------------------------------------------------------------------------
(* Bytes and bit operations. *)

RECURSIVE BitOr(_, _)
BitOr(a, b) ==
    IF a = 0 THEN b
    ELSE IF b = 0 THEN a
    ELSE (IF (a % 2 = 1) \/ (b % 2 = 1) THEN 1 ELSE 0) + 2 * BitOr(a \div 2, b \div 2)

\* x >> n on an unsigned value.
Shr(x, n) == x \div (2 ^ n)

INT32_MIN == -2147483647 - 1
INT32_MAX == 2147483647

\* v << 16 on an int16_t promoted to a 32-bit int (two's complement, as the
\* compiler the bridge is written for defines it for negative values too).
Shl16(v) == v * 65536

----------------------------------------------------------------------------
(* The heap. *)

Alloc(h, kind, over) == Append(h, [kind |-> kind, over |-> over])

\* There is room for n more objects: MaxObjs, and one more while the host
\* holds a second context.
HeapRoom(n) == Len(heap) + n <= MaxObjs + (IF other.self # NULL THEN 1 ELSE 0)

\* How many times object p has been released.
RelCount(rs, p) == Cardinality({i \in 1..Len(rs) : rs[i] = p})

\* The position of p's first release in rs, 0 when it was never released.
RelPos(rs, p) ==
    IF \E i \in 1..Len(rs) : rs[i] = p
    THEN CHOOSE i \in 1..Len(rs) : rs[i] = p /\ \A j \in 1..(i - 1) : rs[j] # p
    ELSE 0

----------------------------------------------------------------------------
(* The context (bizctx) and the engine state the bridge touches. *)

\* The adapters embedded in bizctx, by their position in the layout.
offsetof(member) ==
    CASE member = "rotsource" -> 1
      [] member = "rtcsource" -> 2
      [] member = "lumasource" -> 3

\* &ctx->member for the context at heap index p.
AddrOf(p, member) == [base |-> p, off |-> offsetof(member)]

\* container_of(ptr, bizctx, member): the adapter's address moved back by the
\* member's offset.
container_of(ptr, member) == [base |-> ptr.base, off |-> ptr.off - offsetof(member)]

\* calloc(1, sizeof(bizctx)): every field zero.
ZeroFrame == [i \in 1..(4 * FrameQuads) |-> <<0, 0, 0, 0>>]

CallocCtx ==
    [rom |-> NULL, romvf |-> NULL, biosvf |-> NULL, sramvf |-> NULL,
     tiltx |-> 0, tilty |-> 0, tiltz |-> 0, time |-> 0, light |-> 0,
     vbuff |-> ZeroFrame,
     savedata |-> [i \in 1..SIZE_CART_FLASH1M |-> 0]]

\* Faulty variant of ErasedCtx: the save-RAM buffer is left as calloc gave it.
ErasedCtx_zero == CallocCtx

\* memset(ctx->savedata, 0xff, sizeof(ctx->savedata)) on a zeroed context.
ErasedCtx == [CallocCtx EXCEPT !.savedata = [i \in 1..SIZE_CART_FLASH1M |-> 255]]

\* A null pointer to an adapter, and a null pointer to a call's local.
NullAddr == [base |-> NULL, off |-> 0]
NullLocal == [local |-> "none", call |-> 0]

\* The engine part of a zeroed context, before GBACreate.
ZeroGba ==
    [engine |-> NULL, frameCounter |-> 0, keySource |-> NullLocal,
     rtcSource |-> NullAddr, luminanceSource |-> NullAddr, rotationSource |-> NullAddr,
     romVf |-> NULL, rom |-> NULL, savVf |-> NULL, biosVf |-> NULL,
     availL |-> 0, availR |-> 0, cpuRan |-> FALSE, override |-> FALSE,
     savedataType |-> "SAVEDATA_FORCE_NONE"]

NoRet ==
    [op |-> "none", val |-> 0, base |-> 0, ok |-> TRUE, input |-> "none",
     nsamp |-> 0, readL |-> 0, readR |-> 0, avail |-> 0, host |-> <<>>,
     stores |-> <<>>, size |-> 0, data |-> <<>>, out |-> <<>>,
     prevOp |-> "none", prevData |-> <<>>,
     before |-> CallocCtx, gbefore |-> ZeroGba, afterFail |-> FALSE]

\* The host's second handle when it holds no context.
NoContext == [self |-> NULL, ctx |-> CallocCtx, gba |-> ZeroGba]

\* Faulty variant of Deref: the field is read from the context the host
\* addressed last, whatever the pointer.
Deref_current(cp, field) == ctx[field]

\* ctx->member read through a recovered context pointer cp.  A pointer that is
\* not the base of a live context reads whatever lies there.
Deref(cp, field) ==
    IF cp.off = 0 /\ cp.base = self /\ self # NULL THEN ctx[field]
    ELSE IF cp.off = 0 /\ cp.base = other.self /\ other.self # NULL THEN other.ctx[field]
    ELSE 21845

----------------------------------------------------------------------------
(* Validation by the engine: GBAIsBIOS and GBAIsROM look at the bytes. *)

BiosInputs == {"none", "good", "bad"}
RomInputs == {"valid", "listed", "garbage"}

\* ROM images whose cartridge id has an entry in the override table, and the
\* save type the entry forces; "other" is a value of the engine's enumeration
\* that BizGetSaveRamSize does not name.
ListedRoms == {"listed", "listed_none", "listed_other"}

OverrideType(bytes) ==
    CASE bytes = "listed" -> "SAVEDATA_EEPROM"
      [] bytes = "listed_none" -> "SAVEDATA_FORCE_NONE"
      [] bytes = "listed_other" -> "other"

GBAIsBIOS(bytes) == bytes = "good"
GBAIsROM(bytes) == bytes \in {"valid"} \cup ListedRoms

\* GBAOverrideFind(NULL, &override): the cartridge id is in the override table.
GBAOverrideFind(bytes) == bytes \in ListedRoms

----------------------------------------------------------------------------
(* Release sequences: closes, teardowns and frees, applied in order. *)

\* Apply ops in order.  free(NULL) does nothing; a close through a NULL
\* wrapper faults and nothing after it runs.
RECURSIVE RunOps(_, _)
RunOps(ops, acc) ==
    IF ops = <<>> THEN [rel |-> acc, fault |-> FALSE]
    ELSE LET o == Head(ops) IN
         IF o.p = NULL
         THEN IF o.op = "free" THEN RunOps(Tail(ops), acc)
              ELSE [rel |-> acc, fault |-> TRUE]
         ELSE RunOps(Tail(ops), Append(acc, o.p))

\* Faulty variant of CreateRollback: the BIOS wrapper is never closed.
CreateRollback_leak(c, g, p) ==
    << [op |-> "GBADestroy", p |-> g.engine],
       [op |-> "free", p |-> p] >>

\* BizCreate's rollback on an invalid BIOS.
CreateRollback(c, g, p) ==
    << [op |-> "close", p |-> c.biosvf],
       [op |-> "GBADestroy", p |-> g.engine],
       [op |-> "free", p |-> p] >>

\* BizLoad's rollback on an invalid ROM.
LoadRollback(c) ==
    << [op |-> "close", p |-> c.romvf],
       [op |-> "free", p |-> c.rom] >>

\* Faulty variant of DestroyOps: the context is freed before the save-RAM
\* wrapper over its buffer is closed.
DestroyOps_freeFirst(c, g, p) ==
    << [op |-> "close", p |-> c.romvf],
       [op |-> "free", p |-> c.rom] >>
    \o (IF c.biosvf # NULL THEN << [op |-> "close", p |-> c.biosvf] >> ELSE << >>)
    \o << [op |-> "GBADestroy", p |-> g.engine],
          [op |-> "free", p |-> p],
          [op |-> "close", p |-> c.sramvf] >>

\* BizDestroy's releases, in the order of its statements.
DestroyOps(c, g, p) ==
    << [op |-> "close", p |-> c.romvf],
       [op |-> "free", p |-> c.rom] >>
    \o (IF c.biosvf # NULL THEN << [op |-> "close", p |-> c.biosvf] >> ELSE << >>)
    \o << [op |-> "close", p |-> c.sramvf],
          [op |-> "GBADestroy", p |-> g.engine],
          [op |-> "free", p |-> p] >>

----------------------------------------------------------------------------
(* BizCreate *)

\* The wiring BizCreate does on a fresh context at heap index p whose engine
\* instance is object e.
WireEngine(p, e) ==
    [ZeroGba EXCEPT !.engine = e,
                    !.rtcSource = AddrOf(p, "rtcsource"),
                    !.luminanceSource = AddrOf(p, "lumasource"),
                    !.rotationSource = AddrOf(p, "rotsource")]

\* calloc failed: ctx is NULL and the memset of ctx->savedata runs before the
\* NULL test.  The store either faults, or lands on mapped memory; in the
\* latter case the build either kept the NULL test (return NULL) or dropped
\* it as dead after the dereference and goes on into GBACreate on NULL.
CreateNoMemory(bios) ==
    /\ UNCHANGED <<self, ctx, gba, heap, relSeq, frameCount, seen, args, other>>
    /\ \/ /\ pc' = "crashed"
          /\ nullWrites' = nullWrites \cup {"savedata"}
          /\ ret' = [NoRet EXCEPT !.op = "crash", !.input = bios, !.ok = FALSE,
                                  !.base = Len(heap)]
       \/ /\ pc' = "none"
          /\ nullWrites' = nullWrites \cup {"savedata"}
          /\ ret' = [NoRet EXCEPT !.op = "create", !.input = bios, !.ok = FALSE,
                                  !.val = NULL, !.base = Len(heap)]
       \/ /\ pc' = "crashed"
          /\ nullWrites' = nullWrites \cup {"savedata", "gba"}
          /\ ret' = [NoRet EXCEPT !.op = "crash", !.input = bios, !.ok = FALSE,
                                  !.base = Len(heap)]

CreateOk(bios) ==
    LET p == Len(heap) + 1
        e == Len(heap) + 2
        v == Len(heap) + 3
        h1 == Alloc(Alloc(heap, "ctx", NULL), "engine", p)
        g1 == WireEngine(p, e)
    IN
    /\ UNCHANGED <<frameCount, seen, args, nullWrites, other>>
    /\ IF bios = "none"
       THEN /\ heap' = h1
            /\ relSeq' = relSeq
            /\ self' = p
            /\ ctx' = ErasedCtx
            /\ gba' = g1
            /\ pc' = "idle"
            /\ ret' = [NoRet EXCEPT !.op = "create", !.input = bios, !.val = p,
                                    !.base = Len(heap)]
       ELSE LET h2 == Alloc(h1, "biosvf", p)
                c2 == [ErasedCtx EXCEPT !.biosvf = v]
            IN
            IF ~GBAIsBIOS(bios)
            THEN /\ heap' = h2
                 /\ relSeq' = relSeq \o RunOps(CreateRollback(c2, g1, p), << >>).rel
                 /\ self' = NULL
                 /\ ctx' = ctx
                 /\ gba' = gba
                 /\ pc' = "none"
                 /\ ret' = [NoRet EXCEPT !.op = "create", !.input = bios,
                                         !.val = NULL, !.base = Len(heap)]
            ELSE /\ heap' = h2
                 /\ relSeq' = relSeq
                 /\ self' = p
                 /\ ctx' = c2
                 /\ gba' = [g1 EXCEPT !.biosVf = v]
                 /\ pc' = "idle"
                 /\ ret' = [NoRet EXCEPT !.op = "create", !.input = bios,
                                         !.val = p, !.base = Len(heap)]

BizCreate(bios, allocOK) ==
    /\ pc = "none"
    /\ HeapRoom(3)
    /\ IF allocOK THEN CreateOk(bios) ELSE CreateNoMemory(bios)

----------------------------------------------------------------------------
(* BizReset *)

\* ARMReset(&ctx->cpu): the CPU starts over.
ARMReset(g) == [g EXCEPT !.cpuRan = FALSE]

\* Faulty variant of BizReset: the sensor latches are cleared as well.
BizReset_clearLatches ==
    /\ pc = "idle"
    /\ gba' = ARMReset(gba)
    /\ ctx' = [ctx EXCEPT !.tiltx = 0, !.tilty = 0, !.tiltz = 0, !.time = 0, !.light = 0]
    /\ ret' = [NoRet EXCEPT !.op = "reset"]
    /\ UNCHANGED <<pc, self, heap, relSeq, frameCount, seen, args, nullWrites, other>>

BizReset ==
    /\ pc = "idle"
    /\ gba' = ARMReset(gba)
    /\ ret' = [NoRet EXCEPT !.op = "reset"]
    /\ UNCHANGED <<pc, self, ctx, heap, relSeq, frameCount, seen, args, nullWrites, other>>

----------------------------------------------------------------------------
(* BizLoad *)

\* GBALoadROM(&ctx->gba, romvf, sramvf, NULL): the engine maps the ROM and
\* keeps both virtual files.
\* The save type starts undetected.
GBALoadROM(g, vf, sav, mem) ==
    [g EXCEPT !.romVf = vf, !.rom = mem, !.savVf = sav, !.override = FALSE,
              !.savedataType = "SAVEDATA_AUTODETECT"]

\* The save types the engine may detect from the cartridge's accesses.
DetectedTypes == {"SAVEDATA_SRAM", "SAVEDATA_FLASH512", "SAVEDATA_FLASH1M"}

\* GBAOverrideApply(&ctx->gba, &override), the entry forcing save type t.
GBAOverrideApply(g, t) == [g EXCEPT !.override = TRUE, !.savedataType = t]

\* The call before this one was a Load that failed validation.
AfterFailedLoad == ret.op = "load" /\ ret.input = "garbage" /\ ret.ok /\ ret.val = 0

\* What every return of BizLoad records of the call.
LoadRet(data, ok, val) ==
    [NoRet EXCEPT !.op = "load", !.input = data, !.ok = ok, !.val = val,
                  !.base = Len(heap), !.before = ctx, !.gbefore = gba,
                  !.afterFail = AfterFailedLoad]

BizLoad(data, allocOK) ==
    /\ pc = "idle"
    /\ HeapRoom(3)
    /\ UNCHANGED <<pc, self, frameCount, seen, args, nullWrites, other>>
    /\ IF ~allocOK
       THEN \* malloc returned NULL: ctx->rom is already overwritten
            /\ ctx' = [ctx EXCEPT !.rom = NULL]
            /\ UNCHANGED <<gba, heap, relSeq>>
            /\ ret' = LoadRet(data, FALSE, 0)
       ELSE LET r == Len(heap) + 1
                v == Len(heap) + 2
                s == Len(heap) + 3
                h2 == Alloc(Alloc(heap, "rom", NULL), "romvf", r)
                c2 == [ctx EXCEPT !.rom = r, !.romvf = v]
            IN
            IF ~GBAIsROM(data)
            THEN /\ heap' = h2
                 /\ relSeq' = relSeq \o RunOps(LoadRollback(c2), << >>).rel
                 /\ ctx' = [c2 EXCEPT !.romvf = NULL, !.rom = NULL]
                 /\ gba' = gba
                 /\ ret' = LoadRet(data, TRUE, 0)
            ELSE /\ heap' = Alloc(h2, "sramvf", self)
                 /\ relSeq' = relSeq
                 /\ ctx' = [c2 EXCEPT !.sramvf = s]
                 /\ gba' = LET g2 == GBALoadROM(gba, v, s, r)
                                g3 == IF GBAOverrideFind(data)
                                      THEN GBAOverrideApply(g2, OverrideType(data))
                                      ELSE g2
                            IN ARMReset(g3)
                 /\ ret' = LoadRet(data, TRUE, 1)

----------------------------------------------------------------------------
(* BizDestroy *)

BizDestroy ==
    /\ pc = "idle"
    /\ LET run == RunOps(DestroyOps(ctx, gba, self), << >>) IN
       /\ relSeq' = relSeq \o run.rel
       /\ IF run.fault
          THEN \* a close through a NULL wrapper: the call never returns
               /\ pc' = "crashed"
               /\ ret' = [NoRet EXCEPT !.op = "crash", !.input = "destroy",
                                       !.before = ctx]
               /\ UNCHANGED <<self, ctx, gba>>
          ELSE /\ pc' = "none"
               /\ self' = NULL
               /\ ctx' = CallocCtx
               /\ gba' = ZeroGba
               /\ ret' = [NoRet EXCEPT !.op = "destroy", !.val = self,
                                       !.before = ctx, !.gbefore = gba]
    /\ UNCHANGED <<heap, frameCount, seen, args, nullWrites, other>>

----------------------------------------------------------------------------
(* The peripheral accessors the engine calls with the adapter's address. *)

GetX(rotationSource) == Shl16(Deref(container_of(rotationSource, "rotsource"), "tiltx"))
GetY(rotationSource) == Shl16(Deref(container_of(rotationSource, "rotsource"), "tilty"))
GetZ(rotationSource) == Shl16(Deref(container_of(rotationSource, "rotsource"), "tiltz"))
GetLight(luminanceSource) == Deref(container_of(luminanceSource, "lumasource"), "light")
GetTime(rtcSource) == Deref(container_of(rtcSource, "rtcsource"), "time")

\* One sampling by the engine: every accessor called once through the
\* adapter the engine was wired to.
SampleAll(g) ==
    [x |-> GetX(g.rotationSource), y |-> GetY(g.rotationSource),
     z |-> GetZ(g.rotationSource), light |-> GetLight(g.luminanceSource),
     time |-> GetTime(g.rtcSource)]

----------------------------------------------------------------------------
(* PixelBlit *)

\* Faulty variant of Chan: the byte is taken for a bare 5-bit value and
\* expanded as src << 3 | src >> 2.
Chan_shift(b) == BitOr((b * 8) % 256, Shr(b, 2))

\* One output channel from one source byte: src | src >> 5.
Chan(b) == BitOr(b, Shr(b, 5))

\* Faulty variant of BlitPixel: the channels are copied in the source's order.
BlitPixel_noswap(s) == << Chan(s[1]), Chan(s[2]), Chan(s[3]), 255 >>

\* One pixel: dst[2] from src[0], dst[1] from src[1], dst[0] from src[2],
\* dst[3] = 0xff (tuples are 1-based: byte k is element k + 1).
BlitPixel(s) == << Chan(s[3]), Chan(s[2]), Chan(s[1]), 255 >>

\* dst with pixel i (0-based) written, inside the buffer or past its end.
PutPixel(dst, i, px) == [j \in (DOMAIN dst) \cup {i + 1} |-> IF j = i + 1 THEN px ELSE dst[j]]

\* The loop of blit: four pixels per pass while dst < dst_end.
RECURSIVE BlitLoop(_, _, _)
BlitLoop(dst, src, i) ==
    IF i >= 4 * FrameQuads THEN dst
    ELSE LET d1 == PutPixel(dst, i, BlitPixel(src[i + 1]))
             d2 == PutPixel(d1, i + 1, BlitPixel(src[i + 2]))
             d3 == PutPixel(d2, i + 2, BlitPixel(src[i + 3]))
             d4 == PutPixel(d3, i + 3, BlitPixel(src[i + 4]))
         IN BlitLoop(d4, src, i + 4)

blit(dst, src) == BlitLoop(dst, src, 0)

\* The pixels (0-based) the loop stores to from pixel i on, in the order of
\* its stores.
RECURSIVE BlitStores(_)
BlitStores(i) ==
    IF i >= 4 * FrameQuads THEN << >>
    ELSE << i, i + 1, i + 2, i + 3 >> \o BlitStores(i + 4)

\* The caller's framebuffer before the call.
HostFrame == [i \in 1..(4 * FrameQuads) |-> <<0, 0, 0, 0>>]

----------------------------------------------------------------------------
(* The engine's side of a frame: the renderer and the audio resampler. *)

\* Source pixels the renderer may leave in the internal framebuffer.
PixelSamples == << <<0, 0, 0, 0>>, <<248, 8, 31, 0>>, <<255, 128, 64, 77>>,
                   <<31, 248, 0, 0>> >>

\* Frame k: pixel i is sample (i + k) mod the number of samples.
RenderedFrame(k) ==
    [i \in 1..(4 * FrameQuads) |-> PixelSamples[((i + k) % Len(PixelSamples)) + 1]]

FrameChoices == 1..3

\* Sample pairs one engine step may add to each channel.
Chunks == {0, 512, 1024}

blip_samples_avail(avail) == avail

\* blip_read_samples(buf, out, count, stereo): reads and removes at most
\* count samples; the number read.
blip_read_samples(avail, count) == IF count > avail THEN avail ELSE count

----------------------------------------------------------------------------
(* BizAdvance *)

\* What the host may pass to one Advance call.
Inputs ==
    { [keys |-> 0, x |-> 0, y |-> 0, z |-> 0, light |-> 0, time |-> 0],
      [keys |-> 1023, x |-> -32768, y |-> 32767, z |-> -1, light |-> 255,
       time |-> 2147483647],
      [keys |-> 5, x |-> 1, y |-> -2, z |-> 300, light |-> 7, time |-> -5] }

NoArgs == [keys |-> 0, x |-> 0, y |-> 0, z |-> 0, light |-> 0, time |-> 0]

\* Faulty variant of Latch: gyroy is stored into tiltz and gyroz into tilty.
Latch_swap(c, a) ==
    [c EXCEPT !.light = a.light, !.time = a.time,
              !.tiltx = a.x, !.tilty = a.z, !.tiltz = a.y]

\* The latching statements of BizAdvance.
Latch(c, a) ==
    [c EXCEPT !.light = a.light, !.time = a.time,
              !.tiltx = a.x, !.tilty = a.y, !.tiltz = a.z]

\* Faulty variant of KeepRunning: the loop goes on for one frame more.
KeepRunning_late(fc, g) == g.frameCounter <= fc + 1

\* The condition of BizAdvance's while loop.
KeepRunning(fc, g) == fc = g.frameCounter

\* Faulty variant of CapSamples: the count is reported uncapped.
CapSamples_none(n) == n

\* if (*nsamp > 1024) *nsamp = 1024;
CapSamples(n) == IF n > AUDIO_CAP THEN AUDIO_CAP ELSE n

\* The count BizAdvance asks blip_read_samples for.
DrainRequest == AUDIO_CAP

\* Entry: the key source and the latches are set, the frame counter is read.
AdvanceEnter(a) ==
    /\ pc = "idle"
    /\ gba.rom # NULL
    /\ gba.frameCounter < MaxFrames
    /\ pc' = "running"
    /\ args' = a
    /\ ctx' = Latch(ctx, a)
    /\ gba' = [gba EXCEPT !.keySource = [local |-> "keys", call |-> gba.frameCounter + 1]]
    /\ frameCount' = gba.frameCounter
    /\ seen' = << >>
    /\ ret' = [NoRet EXCEPT !.op = "advancing"]
    /\ UNCHANGED <<self, heap, relSeq, nullWrites, other>>

\* The save type after a step in which the cartridge's accesses showed det
\* ("none": they showed nothing): a type is detected only while none is known.
Detect(type, det) ==
    IF type = "SAVEDATA_AUTODETECT" /\ det # "none" THEN det ELSE type

\* ARMRunLoop(&ctx->cpu): the engine runs up to its next event.  It may
\* finish the frame (the counter goes up by one and the renderer has filled
\* the internal framebuffer), add samples to both channels, sample the
\* sensors, and detect the cartridge's save type while none is known.
ARMRunLoop(inc, chunk, smp, k, det) ==
    /\ pc = "running"
    /\ KeepRunning(frameCount, gba)
    /\ gba.availL + chunk <= MaxAvail
    /\ gba' = [gba EXCEPT !.frameCounter = @ + inc,
                          !.availL = @ + chunk,
                          !.availR = @ + chunk,
                          !.cpuRan = TRUE,
                          !.savedataType = Detect(@, det)]
    /\ ctx' = IF inc = 1 THEN [ctx EXCEPT !.vbuff = RenderedFrame(k)] ELSE ctx
    /\ seen' = IF smp THEN << SampleAll(gba) >> ELSE seen
    /\ UNCHANGED <<pc, self, heap, relSeq, frameCount, args, nullWrites, ret, other>>

\* The loop has ended: blit, report the sample count, drain both channels.
AdvanceReturn ==
    /\ pc = "running"
    /\ ~KeepRunning(frameCount, gba)
    /\ LET n == CapSamples(blip_samples_avail(gba.availL))
           rl == blip_read_samples(gba.availL, DrainRequest)
           rr == blip_read_samples(gba.availR, DrainRequest)
       IN
       /\ gba' = [gba EXCEPT !.availL = @ - rl, !.availR = @ - rr]
       /\ ret' = [NoRet EXCEPT !.op = "advance", !.nsamp = n, !.readL = rl,
                               !.readR = rr, !.avail = gba.availL,
                               !.host = blit(HostFrame, ctx.vbuff),
                               !.stores = BlitStores(0)]
    /\ pc' = "idle"
    /\ UNCHANGED <<self, ctx, heap, relSeq, frameCount, seen, args, nullWrites, other>>

----------------------------------------------------------------------------
(* Save-RAM: BizGetSaveRamSize, BizGetSaveRam, BizPutSaveRam *)

SaveTypes ==
    {"SAVEDATA_AUTODETECT", "SAVEDATA_FORCE_NONE", "SAVEDATA_SRAM",
     "SAVEDATA_FLASH512", "SAVEDATA_FLASH1M", "SAVEDATA_EEPROM", "other"}

\* Faulty variant of SaveRamSize: the EEPROM case is missing and falls to
\* the default.
SaveRamSize_noEeprom(type) ==
    CASE type \in {"SAVEDATA_AUTODETECT", "SAVEDATA_FLASH1M"} -> SIZE_CART_FLASH1M
      [] type = "SAVEDATA_FLASH512" -> SIZE_CART_FLASH512
      [] type = "SAVEDATA_SRAM" -> SIZE_CART_SRAM
      [] OTHER -> 0

\* Faulty variant of SaveRamSize: every size is twice what the source returns.
SaveRamSize_double(type) ==
    CASE type \in {"SAVEDATA_AUTODETECT", "SAVEDATA_FLASH1M"} -> 2 * SIZE_CART_FLASH1M
      [] type = "SAVEDATA_FLASH512" -> 2 * SIZE_CART_FLASH512
      [] type = "SAVEDATA_EEPROM" -> 2 * SIZE_CART_EEPROM
      [] type = "SAVEDATA_SRAM" -> 2 * SIZE_CART_SRAM
      [] OTHER -> 0

\* The switch of BizGetSaveRamSize.
SaveRamSize(type) ==
    CASE type \in {"SAVEDATA_AUTODETECT", "SAVEDATA_FLASH1M"} -> SIZE_CART_FLASH1M
      [] type = "SAVEDATA_FLASH512" -> SIZE_CART_FLASH512
      [] type = "SAVEDATA_EEPROM" -> SIZE_CART_EEPROM
      [] type = "SAVEDATA_SRAM" -> SIZE_CART_SRAM
      [] OTHER -> 0

BizGetSaveRamSize(g) == SaveRamSize(g.savedataType)

\* What a read outside a buffer finds.
Outside == -1

\* Faulty variant of memcpy: one unit too few is copied.
memcpy_short(dst, src, n) ==
    [i \in DOMAIN dst |-> IF i < n THEN src[i] ELSE dst[i]]

\* memcpy(dst, src, n): units 1..n of dst are overwritten with those of src,
\* inside the two buffers or past their ends.
memcpy(dst, src, n) ==
    [i \in (DOMAIN dst) \cup (1..n) |->
        IF i <= n THEN (IF i \in DOMAIN src THEN src[i] ELSE Outside) ELSE dst[i]]

\* The buffers the host may pass to BizPutSaveRam.
SaveBufs ==
    { [i \in 1..SIZE_CART_FLASH1M |-> i],
      [i \in 1..SIZE_CART_FLASH1M |-> 100 + i] }

\* The host's buffer before BizGetSaveRam fills it.
HostSaveBuf == [i \in 1..SIZE_CART_FLASH1M |-> 119]

\* What a Save-RAM call records of itself and of the call before it.
SaveRet(op, data, out) ==
    [NoRet EXCEPT !.op = op, !.size = BizGetSaveRamSize(gba), !.data = data,
                  !.out = out, !.prevOp = ret.op, !.prevData = ret.data]

BizGetSaveRam ==
    /\ pc = "idle"
    /\ ret' = SaveRet("getsaveram", << >>,
                      memcpy(HostSaveBuf, ctx.savedata, BizGetSaveRamSize(gba)))
    /\ UNCHANGED <<pc, self, ctx, gba, heap, relSeq, frameCount, seen, args, nullWrites, other>>

BizPutSaveRam(data) ==
    /\ pc = "idle"
    /\ ctx' = [ctx EXCEPT !.savedata = memcpy(ctx.savedata, data, BizGetSaveRamSize(gba))]
    /\ ret' = SaveRet("putsaveram", data, << >>)
    /\ UNCHANGED <<pc, self, gba, heap, relSeq, frameCount, seen, args, nullWrites, other>>

----------------------------------------------------------------------------
(* Snapshots: BizGetStateSize, BizGetState, BizPutState *)

\* GBASerialize(&ctx->gba, data): the engine's state written out field by
\* field: the frame counter, then the CPU's state as one byte.
GBASerialize(g) == << g.frameCounter, IF g.cpuRan THEN 1 ELSE 0 >>

\* GBADeserialize(&ctx->gba, data): the engine's state read back.
GBADeserialize(g, data) ==
    [g EXCEPT !.frameCounter = data[1], !.cpuRan = (data[2] = 1)]

\* The buffers GetState can have produced.
StateBufs == {<< f, c >> : f \in 0..MaxFrames, c \in {0, 1}}

BizGetStateSize ==
    /\ pc \in {"none", "idle"}
    /\ ret' = [NoRet EXCEPT !.op = "getstatesize", !.size = SIZEOF_GBASerializedState,
                            !.prevOp = ret.op]
    /\ UNCHANGED <<pc, self, ctx, gba, heap, relSeq, frameCount, seen, args, nullWrites, other>>

BizGetState ==
    /\ pc = "idle"
    /\ ret' = [NoRet EXCEPT !.op = "getstate", !.out = GBASerialize(gba),
                            !.prevOp = ret.op, !.prevData = ret.data]
    /\ UNCHANGED <<pc, self, ctx, gba, heap, relSeq, frameCount, seen, args, nullWrites, other>>

\* Faulty variant of BizPutState: the buffer is never handed to the engine.
BizPutState_dropped(data) ==
    /\ pc = "idle"
    /\ ret' = [NoRet EXCEPT !.op = "putstate", !.data = data, !.prevOp = ret.op]
    /\ UNCHANGED <<pc, self, ctx, gba, heap, relSeq, frameCount, seen, args, nullWrites, other>>

BizPutState(data) ==
    /\ pc = "idle"
    /\ gba' = GBADeserialize(gba, data)
    /\ ret' = [NoRet EXCEPT !.op = "putstate", !.data = data, !.prevOp = ret.op]
    /\ UNCHANGED <<pc, self, ctx, heap, relSeq, frameCount, seen, args, nullWrites, other>>

----------------------------------------------------------------------------
(* The specification. *)

Init ==
    /\ pc = "none"
    /\ self = NULL
    /\ ctx = CallocCtx
    /\ gba = ZeroGba
    /\ heap = << >>
    /\ relSeq = << >>
    /\ frameCount = 0
    /\ seen = << >>
    /\ args = NoArgs
    /\ nullWrites = {}
    /\ ret = NoRet
    /\ other = NoContext

Next ==
    \/ \E bios \in BiosInputs, allocOK \in BOOLEAN : BizCreate(bios, allocOK)
    \/ \E data \in RomInputs, allocOK \in BOOLEAN : BizLoad(data, allocOK)
    \/ BizReset
    \/ BizDestroy
    \/ \E a \in Inputs : AdvanceEnter(a)
    \/ \E inc \in {0, 1}, chunk \in Chunks, smp \in BOOLEAN, k \in FrameChoices :
          ARMRunLoop(inc, chunk, smp, k, "none")
    \/ AdvanceReturn

Spec == Init /\ [][Next]_vars

\* The save-RAM calls on a context, with every override and every detection
\* of the save type, under one set of Advance arguments and an engine that
\* produces no audio.
SaveRamRoms == {"valid", "garbage"} \cup ListedRoms
SnapshotInput == [keys |-> 5, x |-> 1, y |-> -2, z |-> 300, light |-> 7, time |-> -5]

NextSaveRam ==
    \/ \E bios \in {"none", "good"} : BizCreate(bios, TRUE)
    \/ \E data \in SaveRamRoms : BizLoad(data, TRUE)
    \/ BizReset
    \/ BizDestroy
    \/ AdvanceEnter(SnapshotInput)
    \/ \E inc \in {0, 1}, det \in DetectedTypes \cup {"none"} :
          ARMRunLoop(inc, 0, FALSE, 1, det)
    \/ AdvanceReturn
    \/ BizGetSaveRam
    \/ \E data \in SaveBufs : BizPutSaveRam(data)

SpecSaveRam == Init /\ [][NextSaveRam]_vars

\* The host turns to its other handle: the context it addressed becomes the
\* second one.
Switch ==
    /\ pc \in {"none", "idle"}
    /\ other' = [self |-> self, ctx |-> ctx, gba |-> gba]
    /\ self' = other.self
    /\ ctx' = other.ctx
    /\ gba' = other.gba
    /\ pc' = IF other.self = NULL THEN "none" ELSE "idle"
    /\ ret' = [NoRet EXCEPT !.op = "switch"]
    /\ UNCHANGED <<heap, relSeq, frameCount, seen, args, nullWrites>>

\* Two contexts side by side: every call on either of them, without a BIOS
\* and with an engine that produces no audio.
IsolationInputs ==
    { [keys |-> 1023, x |-> -32768, y |-> 32767, z |-> -1, light |-> 255,
       time |-> 2147483647],
      [keys |-> 5, x |-> 1, y |-> -2, z |-> 300, light |-> 7, time |-> -5] }

NextIsolation ==
    \/ BizCreate("none", TRUE)
    \/ \E data \in {"valid", "garbage"} : BizLoad(data, TRUE)
    \/ BizReset
    \/ BizDestroy
    \/ \E a \in IsolationInputs : AdvanceEnter(a)
    \/ \E inc \in {0, 1} : ARMRunLoop(inc, 0, FALSE, 1, "none")
    \/ AdvanceReturn
    \/ BizPutSaveRam([i \in 1..SIZE_CART_FLASH1M |-> i])
    \/ Switch

SpecIsolation == Init /\ [][NextIsolation]_vars

\* The snapshot calls on a context, under one set of Advance arguments and an
\* engine that produces no audio.
NextSnapshot ==
    \/ \E bios \in {"none", "good"} : BizCreate(bios, TRUE)
    \/ \E data \in {"valid", "garbage"} : BizLoad(data, TRUE)
    \/ BizReset
    \/ BizDestroy
    \/ AdvanceEnter(SnapshotInput)
    \/ \E inc \in {0, 1}, k \in FrameChoices : ARMRunLoop(inc, 0, FALSE, k, "none")
    \/ AdvanceReturn
    \/ BizGetStateSize
    \/ BizGetState
    \/ \E data \in StateBufs : BizPutState(data)

SpecSnapshot == Init /\ [][NextSnapshot]_vars

----------------------------------------------------------------------------
(* Properties. *)

Min(a, b) == IF a < b THEN a ELSE b

\* The objects allocated by the call that ret describes.
AllocatedByCall == (ret.base + 1)..Len(heap)

\* C1: every Advance call returns only after the frame counter has changed,
\* and at return the counter is its value at entry plus exactly one.
C1_FrameAdvancesByOne ==
    /\ ret.op = "advance" => gba.frameCounter = frameCount + 1
    /\ ret.op = "advance" => gba.frameCounter # frameCount
    /\ pc = "running" => gba.frameCounter \in {frameCount, frameCount + 1}

\* An Advance has returned on a fresh context after at least two engine
\* steps (1536 pairs in the first frame take a 512 and a 1024 chunk).
C1_Witness ==
    ret.op = "advance" /\ gba.frameCounter = 1 /\ ret.avail = 1536

\* C2: by the time Destroy returns, every ROM buffer and every ROM wrapper
\* that any Load allocated has been released exactly once.
C2_RomReleasedOnce ==
    ret.op = "destroy" =>
        \A p \in 1..Len(heap) :
            heap[p].kind \in {"rom", "romvf"} => RelCount(relSeq, p) = 1

\* C3: a Load of bytes that fail validation returns failure, releases the
\* buffer and the wrapper it allocated, and leaves the context and the engine
\* as they were before the call; a valid Load right after it succeeds.
C3_FailedLoadLeavesContext ==
    /\ (ret.op = "load" /\ ret.input = "garbage" /\ ret.ok) =>
          /\ ret.val = 0
          /\ \A p \in AllocatedByCall : RelCount(relSeq, p) = 1
          /\ ctx.rom = NULL /\ ctx.romvf = NULL
          /\ ctx = ret.before
          /\ gba = ret.gbefore
    /\ (ret.op = "load" /\ GBAIsROM(ret.input) /\ ret.ok /\ ret.afterFail) =>
          ret.val = 1

\* C4: for a BIOS that fails validation Create returns null, with the BIOS
\* wrapper closed, then the engine torn down, then the context freed: nothing
\* the call allocated stays allocated.
C4_BadBiosRollsBack ==
    (ret.op = "create" /\ ret.input = "bad") =>
        /\ ret.val = NULL
        /\ self = NULL
        /\ pc = "none"
        /\ \A p \in AllocatedByCall : RelCount(relSeq, p) = 1
        /\ ret.ok =>
              /\ Len(heap) = ret.base + 3
              /\ {heap[p].kind : p \in AllocatedByCall} = {"ctx", "engine", "biosvf"}
              /\ \A p, q \in AllocatedByCall :
                    (heap[p].kind = "biosvf" /\ heap[q].kind \in {"engine", "ctx"})
                        => RelPos(relSeq, p) < RelPos(relSeq, q)

\* Create has returned from the rollback of an invalid BIOS.
C4_Witness ==
    ret.op = "create" /\ ret.input = "bad" /\ ret.ok /\ Len(heap) = ret.base + 3

\* C5: when the allocation of the context fails, Create returns null and has
\* written no field of the context and made no engine call.
C5_NoMemoryTouchesNothing ==
    /\ (ret.op \in {"create", "crash"} /\ ~ret.ok) =>
          (ret.op = "create" /\ ret.val = NULL)
    /\ nullWrites = {}

\* C6: Destroy closes each wrapper the context holds (ROM, BIOS when present,
\* save-RAM) before the buffer backing it is freed, and after Destroy every
\* one of them is closed.
C6_WrappersClosedFirst ==
    ret.op = "destroy" =>
        LET c == ret.before
            wrappers == {c.romvf, c.sramvf} \cup
                        (IF c.biosvf # NULL THEN {c.biosvf} ELSE {})
        IN
        /\ \A w \in wrappers :
              /\ RelCount(relSeq, w) = 1
              /\ RelCount(relSeq, heap[w].over) > 0 =>
                    RelPos(relSeq, w) < RelPos(relSeq, heap[w].over)
        /\ c.rom # NULL =>
              /\ heap[c.romvf].over = c.rom
              /\ RelCount(relSeq, c.rom) = 1
              /\ RelPos(relSeq, c.romvf) < RelPos(relSeq, c.rom)
        /\ heap[c.sramvf].over = ret.val
        /\ c.biosvf # NULL => heap[c.biosvf].over = ret.val
        /\ RelCount(relSeq, ret.val) = 1

\* Destroy has returned on a context that held a BIOS and a loaded ROM.
C6_Witness ==
    ret.op = "destroy" /\ ret.before.biosvf # NULL /\ ret.before.rom # NULL

\* C7: the sample count Advance reports is at most 1024, is the minimum of
\* the pairs available and 1024, and is the number of pairs drained from the
\* left and from the right channel.
C7_SampleCountCapped ==
    ret.op = "advance" =>
        /\ ret.nsamp <= 1024
        /\ ret.nsamp = Min(ret.avail, 1024)
        /\ ret.readL = ret.nsamp
        /\ ret.readR = ret.nsamp

\* An Advance has returned with more than 1024 pairs available.
C7_Witness == ret.op = "advance" /\ ret.avail > 1024 /\ ret.nsamp = 1024

\* C8: when more than 1024 pairs are available at the end of an Advance, the
\* excess is discarded by that call: nothing is pending in the resampler
\* afterwards.
C8_ExcessDiscarded ==
    (ret.op = "advance" /\ ret.avail > 1024) =>
        (gba.availL = 0 /\ gba.availR = 0)

\* What the accessors owe the engine for the arguments a of an Advance: each
\* tilt axis times 65536, luminance and clock as passed.
Expected(a) ==
    [x |-> a.x * 65536, y |-> a.y * 65536, z |-> a.z * 65536,
     light |-> a.light, time |-> a.time]

InInt32(v) == INT32_MIN <= v /\ v <= INT32_MAX

\* C9: every accessor call the engine makes during an Advance or after it,
\* before the next one, returns the value passed to that Advance: tilt as the
\* 16-bit value times 65536 (within 32 bits), luminance and clock unchanged.
C9_LatchesLastWriteWins ==
    /\ seen # << >> =>
          /\ seen[1] = Expected(args)
          /\ InInt32(seen[1].x) /\ InInt32(seen[1].y) /\ InInt32(seen[1].z)
    /\ (self # NULL /\ gba.keySource # NullLocal /\ pc \in {"idle", "running"}) =>
          SampleAll(gba) = Expected(args)

\* The engine has sampled, during the second Advance of a context, negative
\* tilt values that differ from those of the Advance before.
C9_Witness ==
    /\ seen # << >>
    /\ gba.keySource # NullLocal /\ gba.keySource.call = 2
    /\ args.x = -32768 /\ seen[1].x = INT32_MIN /\ seen[1].z = -65536

\* v | v >> 5 on a byte, bit by bit: v >> 5 has three bits, which meet the
\* three low bits of v.
Bit(v, j) == (v \div (2 ^ j)) % 2

OrShift5(v) ==
    (v - (v % 8))
    + (IF Bit(v, 0) = 1 \/ Bit(v, 5) = 1 THEN 1 ELSE 0)
    + (IF Bit(v, 1) = 1 \/ Bit(v, 6) = 1 THEN 2 ELSE 0)
    + (IF Bit(v, 2) = 1 \/ Bit(v, 7) = 1 THEN 4 ELSE 0)

\* C10 as stated: each output channel is value | value >> 5 of the internal
\* channel value, 0 maps to 0 and the internal value 31 maps to 255.
C10_Max31MapsTo255 ==
    ret.op = "advance" =>
        \A i \in DOMAIN ctx.vbuff : \A k \in 1..3 :
            LET v == ctx.vbuff[i][k]
                out == ret.host[i][4 - k]
            IN /\ out = OrShift5(v)
               /\ v = 0 => out = 0
               /\ v = 31 => out = 255

\* C10 as amended: each output channel is byte | byte >> 5 of the internal
\* channel byte; 0 maps to 0, the 5-bit maximum held in the byte's top five
\* bits (248) maps to 255, and the byte 31 maps to 31.
C10_ChannelExpansion ==
    ret.op = "advance" =>
        \A i \in DOMAIN ctx.vbuff : \A k \in 1..3 :
            LET v == ctx.vbuff[i][k]
                out == ret.host[i][4 - k]
            IN /\ out = OrShift5(v)
               /\ v = 0 => out = 0
               /\ v = 248 => out = 255
               /\ v = 31 => out = 31

\* An Advance has blitted a frame holding the channel bytes 0, 31 and 248.
C10_Witness ==
    /\ ret.op = "advance"
    /\ \A b \in {0, 31, 248} :
          \E i \in DOMAIN ctx.vbuff : \E k \in 1..3 : ctx.vbuff[i][k] = b

\* C11: after every Advance every pixel of the host framebuffer has been
\* stored exactly once, from the internal pixel of the same index: byte 3 is
\* 0xFF, byte 0 comes from source byte 2, byte 2 from source byte 0 and byte 1
\* from source byte 1; the loop of four pixels a pass stores nothing past the
\* end of the frame (its pixel count is a multiple of four).
C11_BlitCoversFrameOnce ==
    /\ (VIDEO_HORIZONTAL_PIXELS * VIDEO_VERTICAL_PIXELS) % 4 = 0
    /\ ret.op = "advance" =>
          /\ DOMAIN ret.host = DOMAIN ctx.vbuff
          /\ DOMAIN ret.host = DOMAIN HostFrame
          /\ \A i \in DOMAIN HostFrame :
                /\ Cardinality({j \in 1..Len(ret.stores) : ret.stores[j] = i - 1}) = 1
                /\ ret.host[i][4] = 255
                /\ ret.host[i][1] = OrShift5(ctx.vbuff[i][3])
                /\ ret.host[i][3] = OrShift5(ctx.vbuff[i][1])
                /\ ret.host[i][2] = OrShift5(ctx.vbuff[i][2])
          /\ \A j \in 1..Len(ret.stores) : ret.stores[j] + 1 \in DOMAIN HostFrame

\* An Advance has blitted a frame whose first pixel has different red and
\* blue bytes and a source byte 3 other than 0xFF.
C11_Witness ==
    /\ ret.op = "advance"
    /\ Len(ret.stores) = 4 * FrameQuads
    /\ ctx.vbuff[1][1] # ctx.vbuff[1][3]
    /\ ctx.vbuff[1][4] # 255
    /\ ret.host[1][1] # ret.host[1][3]

\* C12: on a loaded context PutSaveRam(buf) followed at once by
\* GetSaveRam(buf2) leaves buf2 equal to buf on the first GetSaveRamSize()
\* units and as it was beyond them, for every save type and both buffers.
C12_SaveRamRoundTrip ==
    (ret.op = "getsaveram" /\ ret.prevOp = "putsaveram" /\ gba.rom # NULL) =>
        /\ ret.size = BizGetSaveRamSize(gba)
        /\ DOMAIN ret.out = DOMAIN HostSaveBuf
        /\ \A i \in DOMAIN HostSaveBuf :
              /\ i <= ret.size => ret.out[i] = ret.prevData[i]
              /\ i > ret.size => ret.out[i] = HostSaveBuf[i]

\* A Get has followed a Put on a loaded SRAM cartridge: part of the buffer
\* is copied and part is not.
C12_Witness ==
    /\ ret.op = "getsaveram" /\ ret.prevOp = "putsaveram" /\ gba.rom # NULL
    /\ gba.savedataType = "SAVEDATA_SRAM"
    /\ ret.out[SIZE_CART_SRAM] = ret.prevData[SIZE_CART_SRAM]
    /\ ret.out[SIZE_CART_SRAM + 1] # ret.prevData[SIZE_CART_SRAM + 1]

CartTypes ==
    {"SAVEDATA_FLASH1M", "SAVEDATA_FLASH512", "SAVEDATA_EEPROM", "SAVEDATA_SRAM"}

\* A Save-RAM call has just returned; ret.size is what BizGetSaveRamSize
\* returned to it.
SaveRamCall == ret.op \in {"getsaveram", "putsaveram"}

\* C14 as stated: GetSaveRamSize returns a fixed size for each of 1 Mbit
\* flash, 512 kbit flash, EEPROM and SRAM, no two of them equal, and zero
\* whenever the cartridge has no save type: forced to none, or none detected
\* yet.
C14_ZeroWithoutSaveType ==
    SaveRamCall =>
        /\ gba.savedataType \in CartTypes =>
              /\ ret.size = SaveRamSize(gba.savedataType)
              /\ ret.size > 0
              /\ \A t \in CartTypes \ {gba.savedataType} : SaveRamSize(t) # ret.size
        /\ gba.savedataType \in {"SAVEDATA_FORCE_NONE", "SAVEDATA_AUTODETECT"} =>
              ret.size = 0

\* C14 as amended: GetSaveRamSize returns a fixed size for each of 1 Mbit
\* flash, 512 kbit flash, EEPROM and SRAM, no two of them equal; zero when the
\* type is forced to none or is one the switch does not name; and the 1 Mbit
\* flash size, the whole buffer, while no type has been detected yet.
C14_SaveRamSizeByType ==
    SaveRamCall =>
        /\ gba.savedataType = "SAVEDATA_FLASH1M" => ret.size = SIZE_CART_FLASH1M
        /\ gba.savedataType = "SAVEDATA_FLASH512" => ret.size = SIZE_CART_FLASH512
        /\ gba.savedataType = "SAVEDATA_EEPROM" => ret.size = SIZE_CART_EEPROM
        /\ gba.savedataType = "SAVEDATA_SRAM" => ret.size = SIZE_CART_SRAM
        /\ gba.savedataType \in CartTypes =>
              /\ ret.size > 0
              /\ \A t \in CartTypes \ {gba.savedataType} : SaveRamSize(t) # ret.size
        /\ gba.savedataType \in {"SAVEDATA_FORCE_NONE", "other"} => ret.size = 0
        /\ gba.savedataType = "SAVEDATA_AUTODETECT" => ret.size = SIZE_CART_FLASH1M

\* GetSaveRam has returned on a loaded context whose save type is not
\* detected yet, with the whole buffer copied.
C14_Witness ==
    /\ ret.op = "getsaveram" /\ gba.rom # NULL
    /\ gba.savedataType = "SAVEDATA_AUTODETECT"
    /\ ret.size = SIZE_CART_FLASH1M
    /\ ret.out = ctx.savedata

\* Every unit of the save-RAM buffer c holds the erased value 0xFF.
AllErased(c) ==
    /\ DOMAIN c.savedata = 1..SIZE_CART_FLASH1M
    /\ \A i \in DOMAIN c.savedata : c.savedata[i] = 255

\* C15: when Create returns a context, with or without a BIOS, every unit of
\* its save-RAM buffer holds 0xFF; Load and Reset leave the buffer as it was;
\* the buffer of a live context changes only in PutSaveRam or while the
\* engine runs.
C15_SaveRamStartsErased ==
    [][ /\ (ret'.op = "create" /\ ret'.val # NULL) => AllErased(ctx')
        /\ ret'.op \in {"load", "reset"} => ctx'.savedata = ctx.savedata
        /\ (self' = self /\ self # NULL /\ ctx'.savedata # ctx.savedata) =>
               (ret'.op = "putsaveram" \/ pc = "running") ]_vars

\* A context created with a BIOS has been loaded with a listed cartridge and
\* reset, no PutSaveRam has been called, and its buffer holds 0xFF throughout.
C15_Witness ==
    /\ ret.op = "reset" /\ ctx.biosvf # NULL /\ gba.rom # NULL /\ gba.override
    /\ AllErased(ctx)

\* C16: a Reset leaves the ROM buffer and its wrapper, the BIOS wrapper, the
\* save-RAM buffer and its wrapper, the adapter hooks and the latched sensor
\* values as they were, allocates nothing and releases nothing; of the engine
\* state it changes the CPU's only.
C16_ResetKeepsContext ==
    [][ ret'.op = "reset" =>
          /\ self' = self
          /\ ctx'.rom = ctx.rom /\ ctx'.romvf = ctx.romvf
          /\ ctx'.biosvf = ctx.biosvf
          /\ ctx'.savedata = ctx.savedata /\ ctx'.sramvf = ctx.sramvf
          /\ ctx'.tiltx = ctx.tiltx /\ ctx'.tilty = ctx.tilty /\ ctx'.tiltz = ctx.tiltz
          /\ ctx'.light = ctx.light /\ ctx'.time = ctx.time
          /\ ctx' = ctx
          /\ gba'.rotationSource = gba.rotationSource
          /\ gba'.luminanceSource = gba.luminanceSource
          /\ gba'.rtcSource = gba.rtcSource
          /\ gba'.romVf = gba.romVf /\ gba'.rom = gba.rom
          /\ gba'.savVf = gba.savVf /\ gba'.biosVf = gba.biosVf
          /\ SampleAll(gba') = SampleAll(gba)
          /\ gba' = [gba EXCEPT !.cpuRan = gba'.cpuRan]
          /\ heap' = heap
          /\ relSeq' = relSeq ]_vars

\* A Reset has returned on a context with a BIOS, a loaded ROM, save-RAM the
\* host has written and latches set by an Advance.
C16_Witness ==
    /\ ret.op = "reset" /\ ctx.biosvf # NULL /\ gba.rom # NULL
    /\ ~AllErased(ctx)
    /\ ctx.tiltz = 300 /\ gba.frameCounter > 0 /\ ~gba.cpuRan

\* C17: a Destroy on a context that Create returned -- never loaded, after a
\* failed Load, or loaded -- uses no wrapper the context does not hold, and
\* returns with the context freed.
C17_DestroyAlwaysSafe ==
    /\ ~(ret.op = "crash" /\ ret.input = "destroy")
    /\ ret.op = "destroy" =>
          /\ RelCount(relSeq, ret.val) = 1
          /\ relSeq[Len(relSeq)] = ret.val

\* C18: on a loaded context GetSaveRamSize is at most the capacity of the
\* save-RAM buffer for every save type, undetected and unnamed ones included,
\* so GetSaveRam reads nothing and PutSaveRam writes nothing outside it.
C18_SaveRamWithinBuffer ==
    /\ DOMAIN ctx.savedata = 1..SIZE_CART_FLASH1M
    /\ \A i \in DOMAIN ctx.savedata : ctx.savedata[i] # Outside
    /\ gba.rom # NULL =>
          /\ BizGetSaveRamSize(gba) >= 0
          /\ BizGetSaveRamSize(gba) <= Len(ctx.savedata)
    /\ \A t \in SaveTypes : SaveRamSize(t) <= Len(CallocCtx.savedata)
    /\ SaveRamCall =>
          /\ ret.size <= Len(ctx.savedata)
          /\ ret.op = "getsaveram" =>
                /\ DOMAIN ret.out = DOMAIN HostSaveBuf
                /\ \A i \in DOMAIN ret.out : ret.out[i] # Outside

\* PutSaveRam has returned on a loaded context whose save type is not
\* detected yet: the copy has reached the last unit of the buffer.
C18_Witness ==
    /\ ret.op = "putsaveram" /\ gba.rom # NULL
    /\ gba.savedataType = "SAVEDATA_AUTODETECT"
    /\ ret.size = Len(ctx.savedata)
    /\ ctx.savedata[SIZE_CART_FLASH1M] = ret.data[SIZE_CART_FLASH1M]
    /\ ctx.savedata[SIZE_CART_FLASH1M] # 255

\* C19: between calls the context refers to no storage of a call that has
\* returned: once Advance has returned, the engine's key source is not the
\* address of that call's keys parameter.
C19_NoReferenceToFinishedCall ==
    (pc = "idle" /\ self # NULL) => gba.keySource.local = "none"

\* The heap objects a context holds: itself, its engine, its ROM buffer and
\* its wrappers.
Owned(c) ==
    {c.self, c.gba.engine, c.ctx.rom, c.ctx.romvf, c.ctx.biosvf, c.ctx.sramvf} \ {NULL}

\* What the accessors owe the engine for the latches of context record c.
LatchedOf(c) ==
    [x |-> c.tiltx * 65536, y |-> c.tilty * 65536, z |-> c.tiltz * 65536,
     light |-> c.light, time |-> c.time]

\* C20: with two live contexts, a call on one of them (Advance, Load, Reset,
\* PutSaveRam, Destroy) leaves the other's latches, save-RAM, ROM buffer and
\* wrappers as they were and releases none of its objects, and the accessors
\* called on the adapters embedded in the other context return that context's
\* latched values.
C20_ContextsIsolated ==
    [][ (other.self # NULL /\ self # NULL /\ ret'.op # "switch") =>
          /\ other' = other
          /\ \A p \in Owned(other) : RelCount(relSeq', p) = RelCount(relSeq, p)
          /\ \A p \in Owned(other) : RelCount(relSeq', p) = 0
          /\ Owned(other) \cap Owned([self |-> self', ctx |-> ctx', gba |-> gba']) = {}
          /\ SampleAll(other.gba) = LatchedOf(other.ctx)
          /\ SampleAll(other.gba)' = LatchedOf(other.ctx) ]_vars

\* An Advance has returned on one of two loaded contexts whose latches
\* differ, each set by its own Advance.
C20_Witness ==
    /\ other.self # NULL /\ self # NULL /\ ret.op = "advance"
    /\ other.gba.rom # NULL /\ other.gba.keySource # NullLocal
    /\ other.ctx.tiltz # ctx.tiltz /\ other.ctx.light # ctx.light
    /\ other.ctx.tiltx # 0 /\ ctx.tiltx # 0

====
